---- MODULE Spec2Model ----
(***************************************************************************)
(* Model of m2v.py: images/CBZ -> normalized frames -> TTS narration ->    *)
(* Ken Burns render -> mux.                                                 *)
(*                                                                         *)
(* Three specifications share the module:                                  *)
(*   Spec       one run of main(), step by step                            *)
(*   SpecCover  the scale/crop arithmetic of make_frames                    *)
(*   SpecMotion the zoom/pan expressions of build_video_with_kenburns      *)
(***************************************************************************)
EXTENDS Integers, Sequences, FiniteSets, TLC

\* ------------------------------------------------------------------------
\* Bounds
\* ------------------------------------------------------------------------
MaxImages == 3      \* image files a source can hold (Spec)
MaxSrc == 24        \* largest source width/height (SpecCover)
MaxCanvasHalf == 2  \* small square canvases 2, 4, .. 2*MaxCanvasHalf (SpecCover)
MaxFps == 3         \* frame rates 1..MaxFps (SpecMotion)
MaxSpi2 == 4        \* seconds per image 0.5, 1.0, .. MaxSpi2/2 (SpecMotion)
MaxZoomStep == 5    \* zoom targets 1.00, 1.04, .. 1 + 0.04*MaxZoomStep (SpecMotion)
MaxOn == 8          \* local frame indices 0..MaxOn (SpecMotion)

\* ------------------------------------------------------------------------
\* Python float arithmetic (IEEE 754 binary64, round to nearest even).
\* A positive float is [m |-> bits, e |-> k]: m is the 53-bit significand,
\* most significant bit first and equal to 1, the value is m * 2^k.
\* ------------------------------------------------------------------------
MantBits == 53
LimbBits == 10      \* the arithmetic below works on 10-bit limbs
DivLimbs == 8       \* fraction limbs a division produces (80 bits)
MulLimbs == 6       \* limbs that hold a significand (60 bits)

Zeros(n) == [j \in 1..n |-> 0]

\* the L low bits of n, most significant first
BitsOfW(n, L) == [j \in 1..L |-> (n \div 2^(L - j)) % 2]

BitLen(n) == CHOOSE L \in 0..30 : n < 2^L /\ (L = 0 \/ n >= 2^(L - 1))

BitsOf(n) == BitsOfW(n, BitLen(n))

\* value of a bit string shorter than 31 bits
RECURSIVE IntOf(_)
IntOf(b) ==
    IF Len(b) = 0 THEN 0
    ELSE IF Len(b) = 1 THEN b[1]
    ELSE LET h == Len(b) \div 2
         IN IntOf(SubSeq(b, 1, h)) * 2^(Len(b) - h) + IntOf(SubSeq(b, h + 1, Len(b)))

\* drop leading zero bits
Strip(b) ==
    IF \A j \in 1..Len(b) : b[j] = 0 THEN <<>>
    ELSE LET f == CHOOSE j \in 1..Len(b) :
                      b[j] = 1 /\ \A k \in 1..(j-1) : b[k] = 0
         IN SubSeq(b, f, Len(b))

\* significand + 1; a carry out of the top bit renormalises to 1000..0
IncBits(b) ==
    IF \A j \in 1..Len(b) : b[j] = 1
    THEN [bits |-> <<1>> \o Zeros(Len(b) - 1), carry |-> 1]
    ELSE LET z == CHOOSE j \in 1..Len(b) :
                      /\ b[j] = 0
                      /\ \A k \in (j+1)..Len(b) : b[k] = 1
         IN [bits |-> [j \in 1..Len(b) |->
                          IF j < z THEN b[j] ELSE IF j = z THEN 1 ELSE 0],
             carry |-> 0]

\* round the exact value bits * 2^e (plus a non-zero tail when sticky)
\* to the nearest float, ties to even; bits starts with a 1
RoundBits(bits, e, sticky) ==
    LET L == Len(bits) IN
    IF L <= MantBits
    THEN [m |-> bits \o Zeros(MantBits - L), e |-> e - (MantBits - L)]
    ELSE LET keep  == SubSeq(bits, 1, MantBits)
             guard == bits[MantBits + 1]
             rest  == sticky \/ \E j \in (MantBits + 2)..L : bits[j] = 1
             e2    == e + (L - MantBits)
             up    == guard = 1 /\ (rest \/ keep[MantBits] = 1)
             inc   == IncBits(keep)
         IN IF up THEN [m |-> inc.bits, e |-> e2 + inc.carry]
                  ELSE [m |-> keep, e |-> e2]

\* remainders of the long division n / den: r, then one per fraction limb
RECURSIVE DivRems(_, _, _)
DivRems(r, den, j) ==
    IF j = 0 THEN <<r>>
    ELSE <<r>> \o DivRems((r * 2^LimbBits) % den, den, j - 1)

\* int / int true division (0 < n, den < 2^20): correctly rounded quotient
FloatDiv(n, den) ==
    LET rems  == DivRems(n % den, den, DivLimbs)
        limbs == [j \in 1..DivLimbs |-> (rems[j] * 2^LimbBits) \div den]
        frac  == [p \in 1..(DivLimbs * LimbBits) |->
                     LET j == (p - 1) \div LimbBits + 1
                         s == LimbBits - ((p - 1) % LimbBits) - 1
                     IN (limbs[j] \div 2^s) % 2]
    IN RoundBits(Strip(BitsOf(n \div den) \o frac),
                 -(DivLimbs * LimbBits),
                 rems[DivLimbs + 1] # 0)

\* j-th limb of a significand, counted from the least significant end
MantLimb(m, j) ==
    LET hi == MantBits - (j - 1) * LimbBits
        lo == IF hi - LimbBits + 1 < 1 THEN 1 ELSE hi - LimbBits + 1
    IN IntOf(SubSeq(m, lo, hi))

\* limbs of significand * k from the least significant one, the last
\* element being the carry out of the top limb
RECURSIVE MulLimbsOf(_, _, _, _)
MulLimbsOf(m, k, j, carry) ==
    IF j > MulLimbs THEN <<carry>>
    ELSE LET t == MantLimb(m, j) * k + carry
         IN <<t % 2^LimbBits>> \o MulLimbsOf(m, k, j + 1, t \div 2^LimbBits)

\* int * float (0 < k < 2^20): the int converts exactly, the product is
\* rounded once
FloatMul(k, x) ==
    LET limbs == MulLimbsOf(x.m, k, 1, 0)
        low   == [p \in 1..(MulLimbs * LimbBits) |->
                     LET j == MulLimbs - (p - 1) \div LimbBits
                         s == LimbBits - ((p - 1) % LimbBits) - 1
                     IN (limbs[j] \div 2^s) % 2]
    IN RoundBits(Strip(BitsOf(limbs[MulLimbs + 1]) \o low), x.e, FALSE)

FloatLess(x, y) ==
    \/ x.e < y.e
    \/ /\ x.e = y.e
       /\ \E j \in 1..MantBits :
             /\ x.m[j] < y.m[j]
             /\ \A k \in 1..(j-1) : x.m[k] = y.m[k]

\* max(a, b) of the builtin: b only when it is strictly greater
FloatMax(x, y) == IF FloatLess(x, y) THEN y ELSE x
\* min(a, b) of the builtin: b only when it is strictly smaller
FloatMin(x, y) == IF FloatLess(y, x) THEN y ELSE x

\* int(x): truncation toward zero (0 < x < 2^30)
FloatToInt(x) ==
    IF -x.e >= MantBits THEN 0
    ELSE IntOf(SubSeq(x.m, 1, MantBits + x.e))

\* ------------------------------------------------------------------------
\* make_frames: scale and placement of one image
\* ------------------------------------------------------------------------
\* fit == "cover": scale, resized size and crop box
CoverFit(w, h, tw, th) ==
    LET scale == FloatMax(FloatDiv(tw, w), FloatDiv(th, h))
        sw    == FloatToInt(FloatMul(w, scale))
        sh    == FloatToInt(FloatMul(h, scale))
        left  == (sw - tw) \div 2
        top   == (sh - th) \div 2
    IN [sw |-> sw, sh |-> sh, left |-> left, top |-> top,
        right |-> left + tw, bottom |-> top + th]

\* fit == "contain": scale, resized size and paste position
ContainFit(w, h, tw, th) ==
    LET scale == FloatMin(FloatDiv(tw, w), FloatDiv(th, h))
        sw    == FloatToInt(FloatMul(w, scale))
        sh    == FloatToInt(FloatMul(h, scale))
        left  == (tw - sw) \div 2
        top   == (th - sh) \div 2
    IN [sw |-> sw, sh |-> sh, left |-> left, top |-> top,
        right |-> left + sw, bottom |-> top + sh]

\* ------------------------------------------------------------------------
\* State of one run of main()
\* ------------------------------------------------------------------------
VARIABLES
    pc,          \* position in main()
    exit_code,   \* -1 while running, then the process exit status
    edge_tts,    \* module global: "module", or "None" when the import failed
    ffmpeg_ok,   \* whether `ffmpeg -version` can be run
    target_w,    \* args.w
    target_h,    \* args.h
    fit,         \* args.fit
    cbz,         \* TRUE for --cbz, FALSE for --images
    imgs,        \* ordered image list returned by the loader
    corrupt,     \* the image files PIL cannot decode
    i,           \* loop index of make_frames
    tmp_dir,     \* "none", "present" or "removed": the TemporaryDirectory
    work,        \* contents of work_dir
    temp_video,  \* "absent", "partial" or "complete": <out>.silent.mp4
    out_mp4,     \* "absent", "partial" or "complete": the file at args.out
    log,         \* history: the steps taken so far, in order
    src_w, src_h, cover,           \* SpecCover: one source size, its result
    zoom, pan, fps, spi2, on, cur  \* SpecMotion: see below

runVars   == <<pc, exit_code, edge_tts, ffmpeg_ok, target_w, target_h, fit,
               cbz, imgs, corrupt, i, tmp_dir, work, temp_video, out_mp4, log>>
coverVars == <<src_w, src_h, cover>>
motionVars == <<zoom, pan, fps, spi2, on, cur>>
vars == <<runVars, coverVars, motionVars>>

DefaultW == 1080
DefaultH == 1920

\* image files are named <n>.png; file n has this size
Pool == 1..MaxImages
ImgW(n) == 22 * n
ImgH(n) == 11 * n + 11

EmptyWork == [cbz_extract |-> FALSE, frames_dir |-> FALSE,
              frames |-> <<>>, narration |-> FALSE]

Ev(e, n) == [ev |-> e, n |-> n]

\* f"frame_{i:05d}.png": the decimal digits of i, left-padded with zeros
\* to a minimum width of 5
Digits(n) ==
    LET len == CHOOSE L \in 1..10 : n < 10^L /\ (L = 1 \/ n >= 10^(L - 1))
    IN [j \in 1..len |-> (n \div 10^(len - j)) % 10]

FrameName(n) ==
    LET ds == Digits(n)
    IN IF Len(ds) >= 5 THEN ds ELSE [j \in 1..(5 - Len(ds)) |-> 0] \o ds

\* enumerate(images, start=1): the index that goes with the k-th element
EnumIndex_FromZero(k) == k - 1
EnumIndex(k) == k

\* natural_sort_key order of the names <n>.png: by the number n
RECURSIVE SortedSeq(_)
SortedSeq(S) ==
    IF S = {} THEN <<>>
    ELSE LET lo == CHOOSE x \in S : \A y \in S : x <= y
         IN <<lo>> \o SortedSeq(S \ {lo})

\* ensure_even_dimensions: crop to even width and height
EvenDims(f) == [f EXCEPT !.w = (f.w \div 2) * 2, !.h = (f.h \div 2) * 2]

\* the frame make_frames saves for image n: always target_w x target_h;
\* box is where source content lies inside the frame
Normalize(n, tw, th, ft) ==
    IF ft = "cover"
    THEN LET c == CoverFit(ImgW(n), ImgH(n), tw, th)
         IN [src |-> n, w |-> tw, h |-> th, fit |-> ft,
             sw |-> c.sw, sh |-> c.sh, left |-> c.left, top |-> c.top]
    ELSE LET c == ContainFit(ImgW(n), ImgH(n), tw, th)
         IN [src |-> n, w |-> tw, h |-> th, fit |-> ft,
             sw |-> c.sw, sh |-> c.sh, left |-> c.left, top |-> c.top]

\* leaving the `with tempfile.TemporaryDirectory()` block, normally or by
\* an exception (SystemExit included), removes the directory tree
Unwind_Leak(t) == t
Unwind(t) == IF t = "present" THEN "removed" ELSE t

\* check_ffmpeg: the probe fails when `ffmpeg -version` cannot be run
ProbeFailed(ok) == ~ok

\* temp_video.unlink(missing_ok=True): the file is gone afterwards
Unlink_Skipped(f) == f
Unlink(f) == "absent"

\* run(): a non-zero return code is fatal
RunFailed_Ignored(rc) == FALSE
RunFailed(rc) == rc # 0

\* the process ends with status code after the steps evs
Terminate(code, evs) ==
    /\ pc' = "exited"
    /\ exit_code' = code
    /\ tmp_dir' = Unwind(tmp_dir)
    /\ work' = IF Unwind(tmp_dir) = "removed" THEN EmptyWork ELSE work
    /\ log' = log \o evs \o
              (IF tmp_dir = "present" /\ Unwind(tmp_dir) = "removed"
               THEN <<Ev("cleanup", 0)>> ELSE <<>>) \o <<Ev("exit", code)>>

\* die(): message on stderr, sys.exit(1)
Die(evs) == Terminate(1, evs \o <<Ev("die", 0)>>)

Canvases == {<<DefaultW, DefaultH>>, <<DefaultW, DefaultH + 1>>,
             <<DefaultW + 1, DefaultH>>, <<2, 2>>}

\* the variables of the other two specifications, at rest
CoverIdle == src_w = 0 /\ src_h = 0 /\ cover = <<>>
MotionIdle ==
    zoom = 0 /\ pan = "center" /\ fps = 0 /\ spi2 = 0 /\ on = 0 /\ cur = <<>>
RunIdle ==
    /\ pc = "idle" /\ exit_code = -1 /\ edge_tts = "module" /\ ffmpeg_ok = TRUE
    /\ cbz = FALSE /\ imgs = <<>> /\ corrupt = {} /\ i = 0
    /\ tmp_dir = "none" /\ work = EmptyWork
    /\ temp_video = "absent" /\ out_mp4 = "absent" /\ log = <<>>

Init ==
    /\ pc = "check_ffmpeg"
    /\ exit_code = -1
    /\ edge_tts \in {"module", "None"}
    /\ ffmpeg_ok \in BOOLEAN
    /\ \E c \in Canvases : target_w = c[1] /\ target_h = c[2]
    /\ fit \in {"contain", "cover"}
    /\ cbz \in BOOLEAN
    /\ imgs = <<>>
    /\ corrupt = {}
    /\ i = 0
    /\ tmp_dir = "none"
    /\ work = EmptyWork
    /\ temp_video = "absent"
    /\ out_mp4 = "absent"
    /\ log = <<>>
    /\ CoverIdle
    /\ MotionIdle

\* main line 266, check_ffmpeg
CheckFfmpeg ==
    /\ pc = "check_ffmpeg"
    /\ IF ProbeFailed(ffmpeg_ok)
       THEN Die(<<Ev("check_ffmpeg", 0)>>)
       ELSE /\ pc' = "read_script"
            /\ log' = Append(log, Ev("check_ffmpeg", 0))
            /\ UNCHANGED <<exit_code, tmp_dir, work>>
    /\ UNCHANGED <<edge_tts, ffmpeg_ok, target_w, target_h, fit, cbz, imgs,
                   corrupt, i, temp_video, out_mp4>>
    /\ UNCHANGED <<coverVars, motionVars>>

\* main lines 268-275: output directory, then read_script
ReadScript ==
    /\ pc = "read_script"
    /\ \E s \in {"default", "missing", "empty", "text"} :
          IF s \in {"missing", "empty"}
          THEN Die(<<Ev("mkdir_out", 0), Ev("read_script", 0)>>)
          ELSE /\ pc' = "mktemp"
               /\ log' = log \o <<Ev("mkdir_out", 0), Ev("read_script", 0)>>
               /\ UNCHANGED <<exit_code, tmp_dir, work>>
    /\ UNCHANGED <<edge_tts, ffmpeg_ok, target_w, target_h, fit, cbz, imgs,
                   corrupt, i, temp_video, out_mp4>>
    /\ UNCHANGED <<coverVars, motionVars>>

\* main lines 277-280: enter the TemporaryDirectory, create work_dir
MakeTemp ==
    /\ pc = "mktemp"
    /\ pc' = "load_images"
    /\ tmp_dir' = "present"
    /\ work' = EmptyWork
    /\ log' = Append(log, Ev("mktemp", 0))
    /\ UNCHANGED <<exit_code, edge_tts, ffmpeg_ok, target_w, target_h, fit,
                   cbz, imgs, corrupt, i, temp_video, out_mp4>>
    /\ UNCHANGED <<coverVars, motionVars>>

\* stages are numbered in pipeline order: 1 acquire, 2 normalize,
\* 3 narrate, 4 render, 5 mux
\* main lines 283-286: extract_cbz or collect_images_from_dir
LoadImages ==
    /\ pc = "load_images"
    /\ \E st \in {"missing", "badzip", "ok"}, files \in SUBSET Pool :
       \E bad \in SUBSET files :
          IF st = "missing"
          THEN /\ files = {} /\ bad = {}
               /\ Die(<<Ev("begin", 1)>>)
               /\ UNCHANGED <<imgs, corrupt>>
          ELSE IF st = "badzip"
          THEN /\ cbz /\ files = {} /\ bad = {}
               /\ Terminate(1, <<Ev("begin", 1), Ev("raise", 0)>>)
               /\ UNCHANGED <<imgs, corrupt>>
          ELSE IF files = {}
          THEN /\ bad = {}
               /\ Die(<<Ev("begin", 1)>> \o
                      (IF cbz THEN <<Ev("extract_cbz", 0)>> ELSE <<>>))
               /\ UNCHANGED <<imgs, corrupt>>
          ELSE /\ pc' = "mkdir_frames"
               /\ imgs' = SortedSeq(files)
               /\ corrupt' = bad
               /\ work' = [work EXCEPT !.cbz_extract = cbz]
               /\ log' = log \o <<Ev("begin", 1)>> \o
                         (IF cbz THEN <<Ev("extract_cbz", 0)>> ELSE <<>>) \o
                         <<Ev("end", 1)>>
               /\ UNCHANGED <<exit_code, tmp_dir>>
    /\ UNCHANGED <<edge_tts, ffmpeg_ok, target_w, target_h, fit, cbz, i,
                   temp_video, out_mp4>>
    /\ UNCHANGED <<coverVars, motionVars>>

\* make_frames line 98: frames_dir.mkdir
MkdirFrames ==
    /\ pc = "mkdir_frames"
    /\ pc' = "frame_loop"
    /\ work' = [work EXCEPT !.frames_dir = TRUE]
    /\ i' = 1
    /\ log' = log \o <<Ev("begin", 2), Ev("mkdir_frames", 0)>>
    /\ UNCHANGED <<exit_code, edge_tts, ffmpeg_ok, target_w, target_h, fit,
                   cbz, imgs, corrupt, tmp_dir, temp_video, out_mp4>>
    /\ UNCHANGED <<coverVars, motionVars>>

\* make_frames lines 100-132: one iteration of the loop, and the return
\* after the last one
FrameStep ==
    /\ pc = "frame_loop"
    /\ LET img  == imgs[i]
           name == FrameName(EnumIndex(i))
       IN IF img \in corrupt
          THEN /\ Terminate(1, <<Ev("open", i), Ev("raise", 0)>>)
               /\ UNCHANGED i
          ELSE IF target_w % 2 # 0 \/ target_h % 2 # 0
          THEN /\ Die(<<Ev("open", i), Ev("resize", i), Ev("reject_odd", i)>>)
               /\ UNCHANGED i
          ELSE /\ work' = [work EXCEPT !.frames =
                     [nm \in DOMAIN work.frames \cup {name} |->
                         IF nm = name
                         THEN EvenDims(Normalize(img, target_w, target_h, fit))
                         ELSE work.frames[nm]]]
               /\ i' = i + 1
               /\ pc' = IF i = Len(imgs) THEN "tts" ELSE "frame_loop"
               /\ log' = log \o <<Ev("open", i), Ev("resize", i),
                                  Ev("save", EnumIndex(i))>> \o
                         (IF i = Len(imgs) THEN <<Ev("end", 2)>> ELSE <<>>)
               /\ UNCHANGED <<exit_code, tmp_dir>>
    /\ UNCHANGED <<edge_tts, ffmpeg_ok, target_w, target_h, fit, cbz, imgs,
                   corrupt, temp_video, out_mp4>>
    /\ UNCHANGED <<coverVars, motionVars>>

\* main lines 292-294 and synth_tts_edge lines 136-138
TtsStart ==
    /\ pc = "tts"
    /\ IF edge_tts = "None"
       THEN Die(<<Ev("begin", 3), Ev("probe_tts", 0)>>)
       ELSE /\ pc' = "tts_wait"
            /\ log' = log \o <<Ev("begin", 3), Ev("probe_tts", 0)>>
            /\ UNCHANGED <<exit_code, tmp_dir, work>>
    /\ UNCHANGED <<edge_tts, ffmpeg_ok, target_w, target_h, fit, cbz, imgs,
                   corrupt, i, temp_video, out_mp4>>
    /\ UNCHANGED <<coverVars, motionVars>>

\* synth_tts_edge line 139: the service answers, or the call raises
TtsDone ==
    /\ pc = "tts_wait"
    /\ \E ok \in BOOLEAN :
          IF ok
          THEN /\ pc' = "render"
               /\ work' = [work EXCEPT !.narration = TRUE]
               /\ log' = Append(log, Ev("end", 3))
               /\ UNCHANGED <<exit_code, tmp_dir>>
          ELSE Terminate(1, <<Ev("raise", 0)>>)
    /\ UNCHANGED <<edge_tts, ffmpeg_ok, target_w, target_h, fit, cbz, imgs,
                   corrupt, i, temp_video, out_mp4>>
    /\ UNCHANGED <<coverVars, motionVars>>

\* build_video_with_kenburns lines 219-228, run lines 31-32: spawn the
\* render
RenderStart ==
    /\ pc = "render"
    /\ pc' = "render_wait"
    /\ log' = log \o <<Ev("begin", 4), Ev("spawn_render", 0)>>
    /\ UNCHANGED <<exit_code, edge_tts, ffmpeg_ok, target_w, target_h, fit,
                   cbz, imgs, corrupt, i, tmp_dir, work, temp_video, out_mp4>>
    /\ UNCHANGED <<coverVars, motionVars>>

\* run lines 32-35: the render exits; a failing ffmpeg may or may not have
\* written part of its output file
RenderExit ==
    /\ pc = "render_wait"
    /\ \E rc \in {0, 1}, wrote \in {"absent", "partial", "complete"} :
          /\ rc = 0 <=> wrote = "complete"
          /\ temp_video' = wrote
          /\ IF RunFailed(rc)
             THEN Die(<<Ev("render_exit", rc)>>)
             ELSE /\ pc' = "mux"
                  /\ log' = log \o <<Ev("render_exit", rc)>> \o
                            (IF rc = 0 THEN <<Ev("end", 4)>> ELSE <<>>)
                  /\ UNCHANGED <<exit_code, tmp_dir, work>>
    /\ UNCHANGED <<edge_tts, ffmpeg_ok, target_w, target_h, fit, cbz, imgs,
                   corrupt, i, out_mp4>>
    /\ UNCHANGED <<coverVars, motionVars>>

\* build_video_with_kenburns lines 231-240, run lines 31-32: spawn the mux
MuxStart ==
    /\ pc = "mux"
    /\ pc' = "mux_wait"
    /\ log' = log \o <<Ev("begin", 5), Ev("spawn_mux", 0)>>
    /\ UNCHANGED <<exit_code, edge_tts, ffmpeg_ok, target_w, target_h, fit,
                   cbz, imgs, corrupt, i, tmp_dir, work, temp_video, out_mp4>>
    /\ UNCHANGED <<coverVars, motionVars>>

\* run lines 32-35: the mux exits
MuxExit ==
    /\ pc = "mux_wait"
    /\ \E rc \in {0, 1}, wrote \in {"absent", "partial", "complete"} :
          /\ rc = 0 <=> wrote = "complete"
          /\ out_mp4' = wrote
          /\ IF RunFailed(rc)
             THEN Die(<<Ev("mux_exit", rc)>>)
             ELSE /\ pc' = "finish"
                  /\ log' = log \o <<Ev("mux_exit", rc)>> \o
                            (IF rc = 0 THEN <<Ev("end", 5)>> ELSE <<>>)
                  /\ UNCHANGED <<exit_code, tmp_dir, work>>
    /\ UNCHANGED <<edge_tts, ffmpeg_ok, target_w, target_h, fit, cbz, imgs,
                   corrupt, i, temp_video>>
    /\ UNCHANGED <<coverVars, motionVars>>

\* build_video_with_kenburns lines 242-243, then main returns: the with
\* block is left and the process exits with status 0
Finish ==
    /\ pc = "finish"
    /\ temp_video' = Unlink(temp_video)
    /\ Terminate(0, <<Ev("unlink_temp", 0)>>)
    /\ UNCHANGED <<edge_tts, ffmpeg_ok, target_w, target_h, fit, cbz, imgs,
                   corrupt, i, out_mp4>>
    /\ UNCHANGED <<coverVars, motionVars>>

Next ==
    \/ CheckFfmpeg
    \/ ReadScript
    \/ MakeTemp
    \/ LoadImages
    \/ MkdirFrames
    \/ FrameStep
    \/ TtsStart
    \/ TtsDone
    \/ RenderStart
    \/ RenderExit
    \/ MuxStart
    \/ MuxExit
    \/ Finish

Spec == Init /\ [][Next]_vars

\* ------------------------------------------------------------------------
\* Properties of a run (Spec)
\* ------------------------------------------------------------------------
Has(e) == \E k \in 1..Len(log) : log[k] = e
HasEv(name) == \E k \in 1..Len(log) : log[k].ev = name
Count(name) == Cardinality({k \in 1..Len(log) : log[k].ev = name})
Before(e, k) == \E j \in 1..(k - 1) : log[j] = e
OddCanvas == target_w % 2 # 0 \/ target_h % 2 # 0

\* C1 (as claimed): with an odd canvas width or height the run is rejected
\* before the temporary workspace is created, before any CBZ extraction,
\* before the frames directory is created and before the first image is
\* opened or resized: none of these steps ever happens in such a run.
C1_OddRejectedBeforeProcessing ==
    OddCanvas =>
        /\ ~HasEv("mktemp")
        /\ ~HasEv("extract_cbz")
        /\ ~HasEv("mkdir_frames")
        /\ ~HasEv("open")
        /\ ~HasEv("resize")

\* C2 (as claimed): a finished run either had render and mux both exit
\* with status 0 and left the complete final file, or ended with a non-zero
\* status and no file written by it at the output path; the mux is never
\* spawned after a failed render and nothing is spawned twice.
C2_NoPartialSuccess ==
    /\ pc = "exited" =>
          \/ /\ Has(Ev("render_exit", 0)) /\ Has(Ev("mux_exit", 0))
             /\ out_mp4 = "complete"
          \/ /\ exit_code # 0
             /\ out_mp4 = "absent"
    /\ Has(Ev("render_exit", 1)) => ~HasEv("spawn_mux")
    /\ Count("spawn_render") <= 1
    /\ Count("spawn_mux") <= 1

\* C3 (as claimed): both the TTS library and the compositor binary are
\* probed before any stage begins, so a run in which either is absent
\* never creates the workspace nor writes a frame.
C3_BothProbedAtStartup ==
    /\ \A k \in 1..Len(log) : log[k].ev = "begin" =>
          Before(Ev("check_ffmpeg", 0), k) /\ Before(Ev("probe_tts", 0), k)
    /\ (edge_tts = "None" \/ ~ffmpeg_ok) =>
          ~HasEv("mktemp") /\ ~HasEv("save")

\* C4: the stages run in the order acquire, normalize, narrate, render,
\* mux: when a stage begins every earlier stage has completed successfully
\* and no other stage is still active; in particular the mux begins only
\* after narration synthesis has completed.
C4_StagesInOrder ==
    \A k \in 1..Len(log) : log[k].ev = "begin" =>
        /\ \A s \in 1..(log[k].n - 1) : Before(Ev("end", s), k)
        /\ \A j \in 1..(k - 1) : log[j].ev = "begin" =>
              /\ log[j].n < log[k].n
              /\ \E m \in (j + 1)..(k - 1) : log[m] = Ev("end", log[j].n)

C4_Witness == Has(Ev("begin", 5)) /\ Has(Ev("end", 3))

\* C5: once the process has terminated, on success or on any failure, the
\* temporary workspace it created no longer exists.
C5_WorkspaceRemoved ==
    pc = "exited" =>
        /\ tmp_dir # "present"
        /\ HasEv("mktemp") => tmp_dir = "removed" /\ work = EmptyWork

C5_Witness ==
    /\ pc = "exited" /\ exit_code = 1
    /\ Has(Ev("mux_exit", 1)) /\ tmp_dir = "removed"

\* decimal value of a digit string
RECURSIVE DecVal(_)
DecVal(ds) ==
    IF ds = <<>> THEN 0
    ELSE 10 * DecVal(SubSeq(ds, 1, Len(ds) - 1)) + ds[Len(ds)]

\* C6: when make_frames has returned for N >= 1 images, the frames
\* directory holds exactly N frames, each name is 5 decimal digits whose
\* value k lies in 1..N, the frame named k is the normalization of the k-th
\* input image, and the images were opened and saved once each, in input
\* order.
C6_FramesMatchInput ==
    (Has(Ev("end", 2)) /\ tmp_dir = "present") =>
        LET N == Len(imgs) IN
        /\ N >= 1
        /\ Cardinality(DOMAIN work.frames) = N
        /\ \A nm \in DOMAIN work.frames :
              /\ Len(nm) = 5
              /\ \A p \in 1..5 : nm[p] \in 0..9
              /\ DecVal(nm) \in 1..N
              /\ work.frames[nm] =
                     Normalize(imgs[DecVal(nm)], target_w, target_h, fit)
              /\ work.frames[nm].w = target_w /\ work.frames[nm].h = target_h
        /\ SelectSeq(log, LAMBDA e : e.ev = "save") = [k \in 1..N |-> Ev("save", k)]
        /\ SelectSeq(log, LAMBDA e : e.ev = "open") = [k \in 1..N |-> Ev("open", k)]

C6_Witness ==
    /\ pc = "tts" /\ Len(imgs) >= 2 /\ imgs[1] # 1
    /\ Cardinality(DOMAIN work.frames) = Len(imgs)

\* C10: the silent video is written before the final file and is deleted
\* only after the mux has exited with status 0; a successful run leaves no
\* silent video, a run whose mux exits non-zero ends without deleting it:
\* it stays on disk, outside the removed workspace.
C10_SilentVideoLifecycle ==
    /\ \A k \in 1..Len(log) : log[k].ev = "unlink_temp" =>
          Before(Ev("mux_exit", 0), k)
    /\ \A k \in 1..Len(log) : log[k].ev = "spawn_mux" =>
          Before(Ev("render_exit", 0), k)
    /\ pc = "mux_wait" => temp_video = "complete" /\ out_mp4 = "absent"
    /\ out_mp4 # "absent" => Has(Ev("render_exit", 0))
    /\ (pc = "exited" /\ exit_code = 0) => temp_video = "absent"
    /\ (pc = "exited" /\ Has(Ev("mux_exit", 1))) =>
          /\ exit_code # 0
          /\ ~HasEv("unlink_temp")
          /\ temp_video = "complete"
          /\ tmp_dir = "removed"

C10_Witness ==
    /\ pc = "exited" /\ Has(Ev("mux_exit", 1))
    /\ temp_video = "complete" /\ tmp_dir = "removed"

\* ------------------------------------------------------------------------
\* SpecCover: make_frames lines 106-113 on one source size and one canvas
\* ------------------------------------------------------------------------
CoverCanvases ==
    {<<DefaultW, DefaultH>>, <<DefaultH, DefaultW>>} \cup
    {<<2 * k, 2 * k>> : k \in 1..MaxCanvasHalf}

InitCover ==
    /\ RunIdle
    /\ MotionIdle
    /\ \E c \in CoverCanvases : target_w = c[1] /\ target_h = c[2]
    /\ fit = "cover"
    /\ src_w \in 1..MaxSrc
    /\ src_h \in 1..MaxSrc
    /\ cover = <<>>

\* the cover branch for an image of src_w x src_h
ScaleAndCrop ==
    /\ cover = <<>>
    /\ cover' = CoverFit(src_w, src_h, target_w, target_h)
    /\ UNCHANGED <<src_w, src_h, runVars, motionVars>>

NextCover == ScaleAndCrop

SpecCover == InitCover /\ [][NextCover]_vars

\* C9 (as claimed): for every source size and even canvas the resized
\* image covers the canvas (sw >= W and sh >= H) and the centered crop
\* window of W x H lies inside it, so the frame holds no padding.
C9_CoverFillsCanvas ==
    cover # <<>> =>
        /\ cover.sw >= target_w
        /\ cover.sh >= target_h
        /\ 0 <= cover.left /\ cover.right <= cover.sw
        /\ 0 <= cover.top /\ cover.bottom <= cover.sh
        /\ cover.right - cover.left = target_w
        /\ cover.bottom - cover.top = target_h

\* ------------------------------------------------------------------------
\* SpecMotion: the zoompan expressions build_video_with_kenburns emits,
\* evaluated frame by frame.  Numbers are exact rationals <<num, den>> with
\* den > 0 in lowest terms; the zoom literal is the decimal the f-string
\* prints (hundredths), 0.10 is 1/10.
\* ------------------------------------------------------------------------
RECURSIVE Gcd(_, _)
Gcd(a, b) == IF b = 0 THEN a ELSE Gcd(b, a % b)

Abs(a) == IF a < 0 THEN -a ELSE a

Rat(n, d) ==
    LET g == Gcd(Abs(n), Abs(d))
        s == IF d < 0 THEN -1 ELSE 1
    IN <<(s * n) \div g, (s * d) \div g>>

RInt(n) == <<n, 1>>
RAdd(a, b) == Rat(a[1] * b[2] + b[1] * a[2], a[2] * b[2])
RSub(a, b) == Rat(a[1] * b[2] - b[1] * a[2], a[2] * b[2])
RMul(a, b) == Rat(a[1] * b[1], a[2] * b[2])
RDiv(a, b) == Rat(a[1] * b[2], a[2] * b[1])
RLe(a, b)  == a[1] * b[2] <= b[1] * a[2]
RAbs(a)    == <<Abs(a[1]), a[2]>>

\* line 190: d = max(1, int(round(seconds_per_image * fps))), with
\* seconds_per_image = s2 / 2; round() rounds halves to the even integer
HoldFrames(s2, f) ==
    LET n == s2 * f
        q == n \div 2
        r == IF n % 2 = 0 THEN q ELSE IF q % 2 = 0 THEN q ELSE q + 1
    IN IF r < 1 THEN 1 ELSE r

\* line 212: z_expr = if(lte(on, d), 1+(zoom-1)*on/d, zoom)
ZExpr_Unclamped(n, d, zm) ==
    RAdd(RInt(1), RDiv(RMul(RSub(zm, RInt(1)), RInt(n)), RInt(d)))
ZExpr(n, d, zm) ==
    IF n <= d
    THEN RAdd(RInt(1), RDiv(RMul(RSub(zm, RInt(1)), RInt(n)), RInt(d)))
    ELSE zm

\* "iw/2-(iw/zoom)/2": the centered window position along one axis
Centered(ext, z) ==
    RSub(RDiv(RInt(ext), RInt(2)), RDiv(RDiv(RInt(ext), z), RInt(2)))

\* "(iw/zoom)*0.10*(on/d)"
PanTerm(ext, z, n, d) ==
    RMul(RMul(RDiv(RInt(ext), z), Rat(10, 100)), RDiv(RInt(n), RInt(d)))

\* lines 194-208: x_expr for the pan preset; z is zoompan's current zoom
XExpr(p, iw, z, n, d) ==
    IF p = "left" THEN RSub(Centered(iw, z), PanTerm(iw, z, n, d))
    ELSE IF p = "right" THEN RAdd(Centered(iw, z), PanTerm(iw, z, n, d))
    ELSE Centered(iw, z)

\* lines 194-208: y_expr for the pan preset
YExpr(p, ih, z, n, d) ==
    IF p = "up" THEN RSub(Centered(ih, z), PanTerm(ih, z, n, d))
    ELSE IF p = "down" THEN RAdd(Centered(ih, z), PanTerm(ih, z, n, d))
    ELSE Centered(ih, z)

\* zoompan on output frame n of an image: z first, then x and y with the
\* new zoom; prev is the evaluation of the frame before
EvalFrame(n, prev) ==
    LET d == HoldFrames(spi2, fps)
        z == ZExpr(n, d, Rat(zoom, 100))
    IN [z |-> z,
        x |-> XExpr(pan, target_w, z, n, d),
        y |-> YExpr(pan, target_h, z, n, d),
        cx |-> Centered(target_w, z),
        cy |-> Centered(target_h, z),
        prev |-> prev]

Pans == {"center", "left", "right", "up", "down"}
Zooms == {100 + 4 * k : k \in 0..MaxZoomStep}

InitMotion ==
    /\ RunIdle
    /\ CoverIdle
    /\ target_w = DefaultW /\ target_h = DefaultH
    /\ fit = "contain"
    /\ zoom \in Zooms
    /\ pan \in Pans
    /\ fps \in 1..MaxFps
    /\ spi2 \in 1..MaxSpi2
    /\ on = 0
    /\ cur = EvalFrame(0, <<>>)

\* the next output frame of the same image
NextFrame ==
    /\ on < MaxOn
    /\ on' = on + 1
    /\ cur' = EvalFrame(on + 1, [z |-> cur.z, x |-> cur.x, y |-> cur.y,
                                 cx |-> cur.cx, cy |-> cur.cy])
    /\ UNCHANGED <<zoom, pan, fps, spi2, runVars, coverVars>>

NextMotion == NextFrame

SpecMotion == InitMotion /\ [][NextMotion]_vars

HoldD == HoldFrames(spi2, fps)
ZoomTarget == Rat(zoom, 100)

\* C7: zoom(0) = 1, zoom(d) = zoomTarget, zoom(on) = zoomTarget for every
\* on > d, and zoom does not decrease from one frame to the next over
\* [0, d], for every zoomTarget >= 1 and d >= 1.
C7_ZoomCurve ==
    /\ HoldD >= 1
    /\ on = 0 => cur.z = RInt(1)
    /\ on = HoldD => cur.z = ZoomTarget
    /\ on > HoldD => cur.z = ZoomTarget
    /\ (0 < on /\ on <= HoldD) => RLe(cur.prev.z, cur.z)
    /\ RLe(RInt(1), cur.z) /\ RLe(cur.z, ZoomTarget)

C7_Witness ==
    /\ on = HoldD /\ HoldD >= 3 /\ zoom > 100
    /\ cur.z = ZoomTarget /\ cur.prev.z # cur.z

\* signed pan offsets of the current frame from the centered position
OffX(c) == RSub(c.x, c.cx)
OffY(c) == RSub(c.y, c.cy)
\* 0.10 * extent / zoomTarget
PanMax(ext) == RDiv(RMul(Rat(10, 100), RInt(ext)), ZoomTarget)

\* C8 (as claimed): for pan left, right, up and down the offset from the
\* centered position is 0 at on = 0, its magnitude never decreases, never
\* exceeds 0.10 * extent / zoomTarget, and equals that maximum for every
\* on >= d; it has the sign of the direction and the other axis stays
\* centered.
C8_PanBounded ==
    pan # "center" =>
        LET horiz == pan \in {"left", "right"}
            off   == IF horiz THEN OffX(cur) ELSE OffY(cur)
            other == IF horiz THEN OffY(cur) ELSE OffX(cur)
            ext   == IF horiz THEN target_w ELSE target_h
        IN /\ other = RInt(0)
           /\ on = 0 => off = RInt(0)
           /\ IF pan \in {"left", "up"} THEN RLe(off, RInt(0))
                                        ELSE RLe(RInt(0), off)
           /\ on > 0 =>
                 RLe(RAbs(IF horiz THEN OffX(cur.prev) ELSE OffY(cur.prev)),
                     RAbs(off))
           /\ RLe(RAbs(off), PanMax(ext))
           /\ on >= HoldD => RAbs(off) = PanMax(ext)

====
